---- MODULE Spec2Model ----
(***************************************************************************)
(* The agent run loop of atfirst (src/src/atfirst/agent): Agent.arun, the  *)
(* Context it owns (system messages, recordings, tool registry), the       *)
(* _Lifecycle of each run and the dispatch of the tool calls an assistant  *)
(* turn carries.  Runs are coroutines on one event loop: a run executes    *)
(* alone between two suspension points (the provider request, an awaited   *)
(* tool result); `running` is the run that holds the event loop.           *)
(***************************************************************************)
EXTENDS Integers, Sequences, FiniteSets, TLC

VARIABLES
    max_steps,        \* _Lifecycle._max_steps of the lifecycles that are built
    output_schema,    \* Agent.output_schema is not None
    tools,            \* Context._tools: insertion-ordered dict, as a sequence of ToolWrapper
    system_messages,  \* Context._system_messages
    recordings,       \* Context._recordings
    pc,               \* where each run of Agent.arun stands
    life_cycle,       \* the _Lifecycle built for each run
    tool_call_msg,    \* _handle_tool_calls: tool_call_msg of each run
    call_idx,         \* _handle_tool_calls: position of the for loop
    requests,         \* completions requested by each run's loop
    last_request,     \* arguments of the run's latest chat.completions.create
    out_ctx,          \* _handle_output: the Context built for the structured output
    result,           \* what arun returned or raised
    next_call_id,     \* next tool-call id the provider hands out
    running,          \* run holding the event loop (0: none)
    raised,           \* what the caller's latest Context call raised ("": nothing)
    held,             \* what the caller's latest Context call returned
    wrapped           \* what the latest call of wrap returned or raised

vars == <<max_steps, output_schema, tools, system_messages, recordings, pc,
          life_cycle, tool_call_msg, call_idx, requests, last_request,
          out_ctx, result, next_call_id, running, raised, held, wrapped>>

-----------------------------------------------------------------------------
(* Bounds of the model *)

MaxRuns == 2          \* runs of arun on the one Agent
MaxRequests == 6      \* completions requested by the loops of all runs
MaxToolCalls == 2     \* tool calls the provider issues over all runs
MaxBatch == 2         \* tools passed to one add_tool call

(* Program constants *)

DefaultMaxSteps == 5  \* _Lifecycle._max_steps default

Runs == 1..MaxRuns

StepBudgets == {1, 2, DefaultMaxSteps}

-----------------------------------------------------------------------------
(* Message.text: None, a str, or a list of str *)

None == [tag |-> "none", val |-> <<>>]
Str(s) == [tag |-> "str", val |-> <<s>>]
List(ss) == [tag |-> "list", val |-> ss]

Message(role, text, tool_calls, id) ==
    [role |-> role, text |-> text, tool_calls |-> tool_calls, id |-> id]

\* uuid4().hex of a message built without an id; never read by the loop
Uuid == 0

NoMessage == Message("none", None, <<>>, Uuid)

-----------------------------------------------------------------------------
(* Tool names and their order (str comparison, restricted to the names used) *)

NameOrder == <<"add", "fetch", "missing_tool", "terminate">>

ToolNames == {NameOrder[i] : i \in 1..Len(NameOrder)}

Rank(name) == CHOOSE i \in 1..Len(NameOrder) : NameOrder[i] = name

NameLe(a, b) == Rank(a) <= Rank(b)

\* ToolWrapper: name and the callable; life is the run whose _Lifecycle a
\* bound terminate method belongs to (0 for a caller's function)
ToolWrapper(name, fn, life) == [name |-> name, fn |-> fn, life |-> life]

CallerTool(name) == ToolWrapper(name, name, 0)

\* wrap(life_cycle.terminate): func.__name__ is "terminate"
WrapTerminate(r) == ToolWrapper("terminate", "terminate", r)

NoTool == ToolWrapper("none", "none", 0)

-----------------------------------------------------------------------------
(* _Lifecycle *)

NewLifecycle == [current_step |-> 0, is_terminated |-> FALSE]

\* a terminate that flips the flag
terminate_toggle(lc) == [lc EXCEPT !.is_terminated = ~@]

terminate(lc) == [lc EXCEPT !.is_terminated = TRUE]

\* a budget test that is off by one
move_forward_strict(lc, budget) ==
    LET stepped == [lc EXCEPT !.current_step = lc.current_step + 1]
    IN  IF stepped.current_step > budget THEN terminate(stepped) ELSE stepped

move_forward(lc, budget) ==
    LET stepped == [lc EXCEPT !.current_step = lc.current_step + 1]
    IN  IF stepped.current_step >= budget THEN terminate(stepped) ELSE stepped

-----------------------------------------------------------------------------
(* Context: the tool registry *)

HasTool(ts, name) == \E i \in 1..Len(ts) : ts[i].name = name

\* dict.get(name)
get_tool(ts, name) ==
    IF HasTool(ts, name)
    THEN ts[CHOOSE i \in 1..Len(ts) : ts[i].name = name]
    ELSE NoTool

\* self._tools[t.name] = t: a new key goes last, an existing key keeps its place
set_tool(ts, t) ==
    IF HasTool(ts, t.name)
    THEN [i \in 1..Len(ts) |-> IF ts[i].name = t.name THEN t ELSE ts[i]]
    ELSE Append(ts, t)

\* a registration that replaces the tool already under the name
RECURSIVE add_tool_overwrite(_, _)
add_tool_overwrite(ts, new) ==
    IF new = <<>> THEN [tools |-> ts, raised |-> FALSE]
    ELSE add_tool_overwrite(
            IF \E i \in 1..Len(ts) : ts[i].name = Head(new).name
            THEN [i \in 1..Len(ts) |->
                    IF ts[i].name = Head(new).name THEN Head(new) ELSE ts[i]]
            ELSE Append(ts, Head(new)),
            Tail(new))

\* add_tool(*tool): registers in order and raises ValueError at the first
\* name already present; what was registered before the raise stays
RECURSIVE add_tool(_, _)
add_tool(ts, new) ==
    IF new = <<>> THEN [tools |-> ts, raised |-> FALSE]
    ELSE IF HasTool(ts, Head(new).name) THEN [tools |-> ts, raised |-> TRUE]
    ELSE add_tool(Append(ts, Head(new)), Tail(new))

\* sorted(..., key=name): stable insertion into an ordered sequence
RECURSIVE InsertByName(_, _)
InsertByName(sorted, t) ==
    IF sorted = <<>> THEN <<t>>
    ELSE IF NameLe(Head(sorted).name, t.name)
         THEN <<Head(sorted)>> \o InsertByName(Tail(sorted), t)
         ELSE <<t>> \o sorted

RECURSIVE SortedByName(_)
SortedByName(ts) ==
    IF ts = <<>> THEN <<>>
    ELSE InsertByName(SortedByName(SubSeq(ts, 1, Len(ts) - 1)), ts[Len(ts)])

\* the registry's values in insertion order
list_tool_unsorted(ts) == ts

list_tool(ts) == SortedByName(ts)

\* [tool.annotation for tool in self._tools.values()]: the annotation is
\* identified by the function name it advertises
list_tool_annotation(ts) == [i \in 1..Len(ts) |-> ts[i].name]

-----------------------------------------------------------------------------
(* Context: messages *)

\* an add_message that puts a recording in front of those stored
RECURSIVE add_message_front(_, _)
add_message_front(ctx, msgs) ==
    IF msgs = <<>> THEN ctx
    ELSE add_message_front(
            IF Head(msgs).role = "system"
            THEN [ctx EXCEPT !.system_messages = Append(@, Head(msgs))]
            ELSE [ctx EXCEPT !.recordings = <<Head(msgs)>> \o @],
            Tail(msgs))

RECURSIVE add_message(_, _)
add_message(ctx, msgs) ==
    IF msgs = <<>> THEN ctx
    ELSE add_message(
            IF Head(msgs).role = "system"
            THEN [ctx EXCEPT !.system_messages = Append(@, Head(msgs))]
            ELSE [ctx EXCEPT !.recordings = Append(@, Head(msgs))],
            Tail(msgs))

Ctx == [system_messages |-> system_messages, recordings |-> recordings]

EmptyCtx == [system_messages |-> <<>>, recordings |-> <<>>]

\* the Agent's own Context taken for the extraction
own_context == [live |-> TRUE, ctx |-> Ctx]

\* Context.build_context(): a new Context, whose lists are its own
build_context == [live |-> FALSE, ctx |-> EmptyCtx]

\* the Context's own objects handed out as they are
reference(value) == [live |-> TRUE, value |-> value]

\* copy.deepcopy: an equal value that shares no object with the Context
deepcopy(value) == [live |-> FALSE, value |-> value]

list_message(ctx) == deepcopy(ctx.recordings)

get_last_message(ctx) == deepcopy(ctx.recordings[Len(ctx.recordings)])

\* Message.to_openai_message: raises when text is None; a tool message keeps
\* its text and carries tool_call_id, any other message gets a list of text
\* blocks; tool_calls are set for an assistant message that has some.  self
\* is the message after the call: line 66 rebinds a str text to a list
to_openai_message(msg, tool_call_id) ==
    IF msg.text = None THEN [ok |-> FALSE, param |-> <<>>, self |-> msg]
    ELSE [ok |-> TRUE,
          param |->
            [role |-> msg.role,
             content |-> IF msg.role = "tool" THEN msg.text
                         ELSE [tag |-> "blocks", val |-> msg.text.val],
             tool_calls |-> IF msg.role = "assistant" THEN msg.tool_calls ELSE <<>>,
             tool_call_id |-> IF msg.role = "tool" THEN tool_call_id ELSE 0],
          self |-> IF msg.role # "tool" /\ msg.text.tag = "str"
                   THEN [msg EXCEPT !.text = List(msg.text.val)]
                   ELSE msg]

AllMessages(ctx) == ctx.system_messages \o ctx.recordings

\* Context.build_message: every message of a deep copy serialized, system
\* messages first; the comprehension stops at the first message that raises.
\* ctx is the Context after the call
build_message(ctx) ==
    LET all == deepcopy(AllMessages(ctx))
        n == Len(all.value)
        ser == [i \in 1..n |-> to_openai_message(all.value[i], all.value[i].id)]
        failing == {i \in 1..n : ~ser[i].ok}
        after == [i \in 1..n |->
                    IF \A f \in failing : i < f THEN ser[i].self ELSE all.value[i]]
        k == Len(ctx.system_messages)
    IN  [ok |-> failing = {},
         live |-> all.live,
         messages |-> IF failing = {} THEN [i \in 1..n |-> ser[i].param] ELSE <<>>,
         ctx |-> IF all.live
                 THEN [system_messages |-> SubSeq(after, 1, k),
                       recordings |-> SubSeq(after, k + 1, n)]
                 ELSE ctx]

-----------------------------------------------------------------------------
(* Tool calls and their execution (Agent._handle_tool_calls) *)

ArgsEmpty == "{}"
ArgsAB == "{\"a\":2,\"b\":2}"
ArgsBad == "{\"a\":"

\* msgspec.json.decode(tool_args, type=dict[str, Any]): the keyword names, or
\* a DecodeError
json_decode(args) ==
    CASE args = ArgsEmpty -> [ok |-> TRUE, keys |-> {}]
      [] args = ArgsAB -> [ok |-> TRUE, keys |-> {"a", "b"}]
      [] OTHER -> [ok |-> FALSE, keys |-> {}]

\* parameters of the callables: _Lifecycle.terminate(self) takes none, the
\* caller's functions take a and b
Params(fn) == IF fn = "terminate" THEN {} ELSE {"a", "b"}

ToolCall(id, name, args) ==
    [id |-> id, type |-> "function",
     function |-> [name |-> name, arguments |-> args]]

Return(text) == [kind |-> "return", val |-> text]
Raise(err) == [kind |-> "raise", val |-> Str(err)]
Awaitable == [kind |-> "await", val |-> None]
Terminated == [kind |-> "terminate", val |-> None]

\* what a caller's function can do once it runs: return a text, return
\* nothing, or raise
Finished == {Return(Str("4")), Raise("boom")}

\* tool.function(**json.decode(tool_args)): the outcomes of line 81
Invoke(tool, args) ==
    IF ~json_decode(args).ok THEN {Raise("DecodeError")}
    ELSE IF json_decode(args).keys # Params(tool.fn) THEN {Raise("TypeError")}
    ELSE IF tool.fn = "terminate" THEN {Terminated}
    ELSE Finished \cup {Awaitable}

\* the backticks of the source's f-string are written as quotes
NotExistText(name) == "Tool '" \o name \o "' is not exist."
ErrorText(name, err) == "Error executing tool " \o name \o ": " \o err \o "."
SuccessText == "Tool execution success."

\* an error message that drops the tool name
ToolMsgTextBare(name, outcome) ==
    IF outcome.kind = "raise" THEN outcome.val.val[1]
    ELSE IF outcome.val = None \/ outcome.val = Str("") THEN SuccessText
    ELSE outcome.val.val[1]

\* tool_msg of lines 82 and 85, then `tool_msg or "Tool execution success."`
ToolMsgText(name, outcome) ==
    IF outcome.kind = "raise" THEN ErrorText(name, outcome.val.val[1])
    ELSE IF outcome.val = None \/ outcome.val = Str("") THEN SuccessText
    ELSE outcome.val.val[1]

ToolMessage(text, id) == Message("tool", Str(text), <<>>, id)

\* the effect of the bound method wrapped by build_lifecycle
CallTerminate(lcs, tool) == [lcs EXCEPT ![tool.life] = terminate(@)]

-----------------------------------------------------------------------------
(* Agent: system message, input, output *)

RECURSIVE Join(_, _)
Join(ss, sep) ==
    IF ss = <<>> THEN ""
    ELSE IF Len(ss) = 1 THEN ss[1]
    ELSE ss[1] \o sep \o Join(Tail(ss), sep)

\* the system template rendered with tools=self.ctx.list_tool()
RenderSystem(ts) ==
    "system tools: " \o Join([i \in 1..Len(ts) |-> ts[i].name], ",")

SystemMessage(ts) == Message("system", Str(RenderSystem(list_tool(ts))), <<>>, Uuid)

Question == "What is 2+2?"

Inputs ==
    { [kind |-> "str", messages |-> <<>>],
      [kind |-> "message", messages |-> <<Message("user", Str(Question), <<>>, Uuid)>>],
      [kind |-> "list", messages |-> <<Message("user", Str(Question), <<>>, Uuid)>>],
      [kind |-> "invalid", messages |-> <<>>] }

\* an input check that takes any other value as no message
handle_input_lenient(input) ==
    CASE input.kind = "str" ->
            [ok |-> TRUE, messages |-> <<Message("user", Str(Question), <<>>, Uuid)>>]
      [] OTHER -> [ok |-> TRUE, messages |-> input.messages]

\* Agent._handle_input: the messages to add, or TypeError
handle_input(input) ==
    CASE input.kind = "str" ->
            [ok |-> TRUE, messages |-> <<Message("user", Str(Question), <<>>, Uuid)>>]
      [] input.kind \in {"message", "list"} ->
            [ok |-> TRUE, messages |-> input.messages]
      [] OTHER -> [ok |-> FALSE, messages |-> <<>>]

\* _format of _handle_output
Format(content) ==
    CASE content.tag = "str" -> Str(content.val[1])
      [] content.tag = "list" -> Str(Join(content.val, "\n"))
      [] OTHER -> None

\* a scan from the front
AnswerFirst(msgs) ==
    LET idx == {i \in 1..Len(msgs) : msgs[i].role = "assistant"}
    IN  IF idx = {} THEN NoMessage
        ELSE msgs[CHOOSE i \in idx : \A j \in idx : i <= j]

\* the loop of lines 109-115: the first assistant message from the end
Answer(msgs) ==
    LET idx == {i \in 1..Len(msgs) : msgs[i].role = "assistant"}
    IN  IF idx = {} THEN NoMessage
        ELSE msgs[CHOOSE i \in idx : \A j \in idx : j <= i]

Pending == [kind |-> "pending", val |-> ""]
ReturnedNone == [kind |-> "none", val |-> ""]
ReturnedText(s) == [kind |-> "text", val |-> s]
ReturnedModel(s) == [kind |-> "model", val |-> s]
Raised(e) == [kind |-> "error", val |-> e]

\* a scope without the finally
ExitScopeNoFinally(lc) == lc

\* the finally of Context.build_lifecycle
ExitScope(lc) == terminate(lc)

\* the Context of lines 124-135
OutputCtx(answer) ==
    add_message(build_context.ctx,
        << Message("system", List(<<"Collect information", "<output_format>">>), <<>>, Uuid),
           Message("assistant", answer.text, <<>>, Uuid) >>)

NoRequest == [messages |-> <<>>, tools |-> <<>>]

-----------------------------------------------------------------------------
(* The provider *)

\* the tool calls a completion can carry: a name and an argument payload
CallKinds ==
    { <<"add", ArgsAB>>,
      <<"terminate", ArgsEmpty>>, <<"terminate", ArgsBad>>,
      <<"missing_tool", ArgsEmpty>> }

CallsLeft == MaxToolCalls - (next_call_id - 1)

\* the tool_calls of one completion, with fresh ids
TurnCalls ==
    UNION { { [i \in 1..n |-> ToolCall(next_call_id + i - 1, ks[i][1], ks[i][2])]
              : ks \in [1..n -> CallKinds] }
            : n \in 0..CallsLeft }

\* the text of the completion answering request n of run r
ReplyText(r, n) == "reply " \o ToString(r) \o "." \o ToString(n)

\* ChatCompletion: choices[0].message.content and .tool_calls; the provider
\* leaves content null only in a completion that calls tools
Completions(r) ==
    { completion \in
        { [content |-> c, tool_calls |-> tcs]
          : c \in {None, Str(ReplyText(r, requests[r]))}, tcs \in TurnCalls }
      : completion.content = None => completion.tool_calls # <<>> }

\* Message.from_completion
from_completion(completion) ==
    Message("assistant", completion.content,
            [i \in 1..Len(completion.tool_calls) |->
                [id |-> completion.tool_calls[i].id,
                 type |-> "function",
                 function |->
                    [name |-> completion.tool_calls[i].function.name,
                     arguments |-> completion.tool_calls[i].function.arguments]]],
            Uuid)

TotalRequests ==
    LET RECURSIVE Sum(_)
        Sum(n) == IF n = 0 THEN 0 ELSE requests[n] + Sum(n - 1)
    IN  Sum(MaxRuns)

-----------------------------------------------------------------------------
(* What the caller holds *)

\* a call that returned None, or no call yet
NoResult ==
    [call |-> "none", live |-> FALSE, ok |-> TRUE, value |-> <<>>,
     returned |-> <<>>, repeat |-> FALSE]

\* no call of wrap yet
NotWrapped ==
    [status |-> "none", func |-> <<>>, name |-> "", required |-> <<>>,
     properties |-> <<>>]

-----------------------------------------------------------------------------
(* Initial state: the Agent after __post_init__ *)

AgentTools ==
    { <<>>, <<CallerTool("add")>>, <<CallerTool("fetch"), CallerTool("add")>> }

Init ==
    /\ max_steps \in StepBudgets
    /\ output_schema \in BOOLEAN
    /\ tools \in {add_tool(<<>>, ts).tools : ts \in AgentTools}
    /\ system_messages = <<>>
    /\ recordings = <<>>
    /\ pc = [r \in Runs |-> "idle"]
    /\ life_cycle = [r \in Runs |-> NewLifecycle]
    /\ tool_call_msg = [r \in Runs |-> NoMessage]
    /\ call_idx = [r \in Runs |-> 0]
    /\ requests = [r \in Runs |-> 0]
    /\ last_request = [r \in Runs |-> NoRequest]
    /\ out_ctx = [r \in Runs |-> EmptyCtx]
    /\ result = [r \in Runs |-> Pending]
    /\ next_call_id = 1
    /\ running = 0
    /\ raised = ""
    /\ held = NoResult
    /\ wrapped = NotWrapped

-----------------------------------------------------------------------------
(* Agent.arun *)

InProgress(r) == pc[r] \notin {"idle", "done", "failed"}

\* a start that builds the system message before terminate is registered
StartRunSystemFirst(r, input) ==
    /\ pc[r] = "idle"
    /\ running = 0
    /\ \A q \in Runs : q < r => pc[q] # "idle"
    /\ LET ctx1 == add_message(Ctx, <<SystemMessage(tools)>>)
           inp == handle_input(input)
           ctx2 == add_message(ctx1, inp.messages)
       IN  /\ tools' = set_tool(tools, WrapTerminate(r))
           /\ system_messages' = ctx2.system_messages
           /\ recordings' = ctx2.recordings
           /\ IF inp.ok
              THEN /\ life_cycle' = [life_cycle EXCEPT ![r] = NewLifecycle]
                   /\ pc' = [pc EXCEPT ![r] = "loop"]
                   /\ running' = r
                   /\ result' = result
              ELSE /\ life_cycle' = [life_cycle EXCEPT ![r] = ExitScope(NewLifecycle)]
                   /\ pc' = [pc EXCEPT ![r] = "failed"]
                   /\ running' = 0
                   /\ result' = [result EXCEPT ![r] = Raised("TypeError")]
    /\ UNCHANGED <<held, wrapped, max_steps, output_schema, raised, tool_call_msg,
                   call_idx, requests, last_request, out_ctx, next_call_id>>

\* lines 147-149: enter the lifecycle scope, build the system message, take
\* the input; a TypeError leaves through the scope's finally
StartRun(r, input) ==
    /\ pc[r] = "idle"
    /\ running = 0
    /\ \A q \in Runs : q < r => pc[q] # "idle"
    /\ LET tools1 == set_tool(tools, WrapTerminate(r))
           ctx1 == add_message(Ctx, <<SystemMessage(tools1)>>)
           inp == handle_input(input)
           ctx2 == add_message(ctx1, inp.messages)
       IN  /\ tools' = tools1
           /\ system_messages' = ctx2.system_messages
           /\ recordings' = ctx2.recordings
           /\ IF inp.ok
              THEN /\ life_cycle' = [life_cycle EXCEPT ![r] = NewLifecycle]
                   /\ pc' = [pc EXCEPT ![r] = "loop"]
                   /\ running' = r
                   /\ result' = result
              ELSE /\ life_cycle' = [life_cycle EXCEPT ![r] = ExitScope(NewLifecycle)]
                   /\ pc' = [pc EXCEPT ![r] = "failed"]
                   /\ running' = 0
                   /\ result' = [result EXCEPT ![r] = Raised("TypeError")]
    /\ UNCHANGED <<held, wrapped, max_steps, output_schema, raised, tool_call_msg, call_idx, requests,
                   last_request, out_ctx, next_call_id>>

\* the first run of the Agent
Start(r) ==
    /\ \A q \in Runs : pc[q] = "idle"
    /\ \E input \in Inputs : StartRun(r, input)

\* a run started once the runs before it are over
StartSequential(r) ==
    /\ \A q \in Runs : ~InProgress(q)
    /\ \E input \in Inputs : StartRun(r, input)

\* a run started while another is suspended
StartInterleaved(r) == \E input \in Inputs : StartRun(r, input)

\* line 151 and the call of line 152 up to its await: the scope is left when
\* the lifecycle is terminated; otherwise the context is serialized (which
\* raises on a message without text) and the request is sent
Loop(r) ==
    /\ pc[r] = "loop"
    /\ running = r
    /\ IF life_cycle[r].is_terminated
       THEN /\ life_cycle' = [life_cycle EXCEPT ![r] = ExitScope(@)]
            /\ pc' = [pc EXCEPT ![r] = "output"]
            /\ UNCHANGED <<requests, last_request, result, running,
                           system_messages, recordings>>
       ELSE LET built == build_message(Ctx)
            IN  /\ system_messages' = built.ctx.system_messages
                /\ recordings' = built.ctx.recordings
                /\ IF ~built.ok
                   THEN /\ life_cycle' = [life_cycle EXCEPT ![r] = ExitScope(@)]
                        /\ pc' = [pc EXCEPT ![r] = "failed"]
                        /\ result' = [result EXCEPT ![r] = Raised("Text is required")]
                        /\ running' = 0
                        /\ UNCHANGED <<requests, last_request>>
                   ELSE /\ TotalRequests < MaxRequests
                        /\ requests' = [requests EXCEPT ![r] = @ + 1]
                        /\ last_request' = [last_request EXCEPT ![r] =
                                [messages |-> built.messages,
                                 tools |-> list_tool_annotation(tools)]]
                        /\ pc' = [pc EXCEPT ![r] = "awaiting_model"]
                        /\ running' = 0
                        /\ UNCHANGED <<life_cycle, result>>
    /\ UNCHANGED <<held, wrapped, max_steps, output_schema, raised, tools,
                   tool_call_msg, call_idx, out_ctx, next_call_id>>

\* Model.aresponse after the await: the completion becomes one assistant
\* message; _handle_tool_calls then reads it back
Respond(r) ==
    /\ pc[r] = "awaiting_model"
    /\ running = 0
    /\ \E completion \in Completions(r) :
        LET ctx1 == add_message(Ctx, <<from_completion(completion)>>)
        IN  /\ recordings' = ctx1.recordings
            /\ system_messages' = ctx1.system_messages
            /\ tool_call_msg' = [tool_call_msg EXCEPT ![r] = get_last_message(ctx1).value]
            /\ next_call_id' = next_call_id + Len(completion.tool_calls)
    /\ call_idx' = [call_idx EXCEPT ![r] = 1]
    /\ pc' = [pc EXCEPT ![r] = "dispatch"]
    /\ running' = r
    /\ UNCHANGED <<held, wrapped, max_steps, output_schema, raised, tools, life_cycle, requests,
                   last_request, out_ctx, result>>

\* a rejected request that is swallowed: the loop goes on to its next step
RequestFailsSwallowed(r) ==
    /\ pc[r] = "awaiting_model"
    /\ running = 0
    /\ life_cycle' = [life_cycle EXCEPT ![r] = move_forward(@, max_steps)]
    /\ pc' = [pc EXCEPT ![r] = "loop"]
    /\ running' = r
    /\ UNCHANGED <<held, wrapped, max_steps, output_schema, raised, tools,
                   system_messages, recordings, tool_call_msg, call_idx, requests,
                   last_request, out_ctx, next_call_id, result>>

\* the provider rejects the request: the error leaves arun through the
\* scope's finally
RequestFails(r) ==
    /\ pc[r] = "awaiting_model"
    /\ running = 0
    /\ life_cycle' = [life_cycle EXCEPT ![r] = ExitScope(@)]
    /\ pc' = [pc EXCEPT ![r] = "failed"]
    /\ result' = [result EXCEPT ![r] = Raised("BadRequestError")]
    /\ UNCHANGED <<held, wrapped, max_steps, output_schema, raised, tools, system_messages, recordings,
                   tool_call_msg, call_idx, requests, last_request, out_ctx,
                   next_call_id, running>>

CurrentCall(r) == tool_call_msg[r].tool_calls[call_idx[r]]

\* a tool message that does not take the id of its call
AppendToolMessageNoId(r, text) ==
    LET ctx1 == add_message(Ctx, <<ToolMessage(text, Uuid)>>)
    IN  /\ recordings' = ctx1.recordings
        /\ system_messages' = ctx1.system_messages
        /\ call_idx' = [call_idx EXCEPT ![r] = @ + 1]

\* lines 88-95 for the call at hand, then the next iteration of the for loop
AppendToolMessage(r, text) ==
    LET ctx1 == add_message(Ctx, <<ToolMessage(text, CurrentCall(r)["id"])>>)
    IN  /\ recordings' = ctx1.recordings
        /\ system_messages' = ctx1.system_messages
        /\ call_idx' = [call_idx EXCEPT ![r] = @ + 1]

\* one iteration of the for loop of _handle_tool_calls, up to an await
Dispatch(r) ==
    /\ pc[r] = "dispatch"
    /\ running = r
    /\ call_idx[r] <= Len(tool_call_msg[r].tool_calls)
    /\ LET tool_name == CurrentCall(r)["function"]["name"]
           tool_args == CurrentCall(r)["function"]["arguments"]
           tool == get_tool(tools, tool_name)
       IN  IF tool = NoTool
           THEN /\ AppendToolMessage(r, NotExistText(tool_name))
                /\ UNCHANGED <<life_cycle, pc, running>>
           ELSE \E outcome \in Invoke(tool, tool_args) :
                   CASE outcome.kind = "await" ->
                           /\ pc' = [pc EXCEPT ![r] = "awaiting_tool"]
                           /\ running' = 0
                           /\ UNCHANGED <<life_cycle, recordings, system_messages,
                                          call_idx>>
                     [] outcome.kind = "terminate" ->
                           /\ life_cycle' = CallTerminate(life_cycle, tool)
                           /\ AppendToolMessage(r, ToolMsgText(tool_name, outcome))
                           /\ UNCHANGED <<pc, running>>
                     [] OTHER ->
                           /\ AppendToolMessage(r, ToolMsgText(tool_name, outcome))
                           /\ UNCHANGED <<life_cycle, pc, running>>
    /\ UNCHANGED <<held, wrapped, max_steps, output_schema, raised, tools, tool_call_msg, requests,
                   last_request, out_ctx, result, next_call_id>>

\* line 82 after the await: the awaited tool returns or raises
ToolDone(r) ==
    /\ pc[r] = "awaiting_tool"
    /\ running = 0
    /\ \E outcome \in Finished :
          AppendToolMessage(r, ToolMsgText(CurrentCall(r)["function"]["name"], outcome))
    /\ pc' = [pc EXCEPT ![r] = "dispatch"]
    /\ running' = r
    /\ UNCHANGED <<held, wrapped, max_steps, output_schema, raised, tools, life_cycle, tool_call_msg,
                   requests, last_request, out_ctx, result, next_call_id>>

\* a loop that also ends at a turn without tool calls
MoveForwardStopsWithoutCalls(r) ==
    /\ pc[r] = "dispatch"
    /\ running = r
    /\ call_idx[r] > Len(tool_call_msg[r].tool_calls)
    /\ life_cycle' = [life_cycle EXCEPT ![r] =
            IF tool_call_msg[r].tool_calls = <<>>
            THEN terminate(@) ELSE move_forward(@, max_steps)]
    /\ pc' = [pc EXCEPT ![r] = "loop"]
    /\ UNCHANGED <<held, wrapped, max_steps, output_schema, raised, tools, system_messages, recordings,
                   tool_call_msg, call_idx, requests, last_request, out_ctx,
                   result, next_call_id, running>>

\* line 155, once the for loop is over
MoveForward(r) ==
    /\ pc[r] = "dispatch"
    /\ running = r
    /\ call_idx[r] > Len(tool_call_msg[r].tool_calls)
    /\ life_cycle' = [life_cycle EXCEPT ![r] = move_forward(@, max_steps)]
    /\ pc' = [pc EXCEPT ![r] = "loop"]
    /\ UNCHANGED <<held, wrapped, max_steps, output_schema, raised, tools, system_messages, recordings,
                   tool_call_msg, call_idx, requests, last_request, out_ctx,
                   result, next_call_id, running>>

\* Agent._handle_output up to its await: with an answer and an output
\* schema, aresponse is called on the Context of lines 124-135, which
\* serializes it and sends the request
Output(r) ==
    /\ pc[r] = "output"
    /\ running = r
    /\ LET answer == Answer(list_message(Ctx).value)
       IN  IF answer = NoMessage \/ answer.text = None
           THEN /\ result' = [result EXCEPT ![r] = ReturnedNone]
                /\ pc' = [pc EXCEPT ![r] = "done"]
                /\ UNCHANGED <<out_ctx, last_request, system_messages, recordings>>
           ELSE IF ~output_schema
           THEN /\ result' = [result EXCEPT ![r] = ReturnedText(Format(answer.text).val[1])]
                /\ pc' = [pc EXCEPT ![r] = "done"]
                /\ UNCHANGED <<out_ctx, last_request, system_messages, recordings>>
           ELSE LET ctx == OutputCtx(answer)
                IN  /\ out_ctx' = [out_ctx EXCEPT ![r] = ctx]
                    /\ system_messages' = IF build_context.live
                                          THEN ctx.system_messages ELSE system_messages
                    /\ recordings' = IF build_context.live
                                     THEN ctx.recordings ELSE recordings
                    /\ last_request' = [last_request EXCEPT ![r] =
                            [messages |-> build_message(ctx).messages,
                             tools |-> list_tool_annotation(
                                          IF build_context.live THEN tools ELSE <<>>)]]
                    /\ pc' = [pc EXCEPT ![r] = "awaiting_output"]
                    /\ result' = result
    /\ running' = 0
    /\ UNCHANGED <<held, wrapped, max_steps, output_schema, raised, tools,
                   life_cycle, tool_call_msg, call_idx, requests, next_call_id>>

\* lines 137-141: the completion of the structured-output request, parsed
\* by model_validate_json (which raises on text that does not fit)
OutputRespond(r) ==
    /\ pc[r] = "awaiting_output"
    /\ running = 0
    /\ \E content \in {None, Str("{\"answer\":4}"), Str("not json")} :
        LET ctx1 == add_message(out_ctx[r],
                        <<from_completion([content |-> content, tool_calls |-> <<>>])>>)
            output == Format(get_last_message(ctx1).value.text)
        IN  /\ out_ctx' = [out_ctx EXCEPT ![r] = ctx1]
            /\ system_messages' = IF build_context.live
                                  THEN ctx1.system_messages ELSE system_messages
            /\ recordings' = IF build_context.live THEN ctx1.recordings ELSE recordings
            /\ IF output = None
               THEN /\ result' = [result EXCEPT ![r] = ReturnedNone]
                    /\ pc' = [pc EXCEPT ![r] = "done"]
               ELSE IF output = Str("not json")
               THEN /\ result' = [result EXCEPT ![r] = Raised("ValidationError")]
                    /\ pc' = [pc EXCEPT ![r] = "failed"]
               ELSE /\ result' = [result EXCEPT ![r] = ReturnedModel(output.val[1])]
                    /\ pc' = [pc EXCEPT ![r] = "done"]
    /\ UNCHANGED <<held, wrapped, max_steps, output_schema, raised, tools,
                   life_cycle, tool_call_msg, call_idx, requests, last_request,
                   next_call_id, running>>

\* the provider rejects the structured-output request
OutputFails(r) ==
    /\ pc[r] = "awaiting_output"
    /\ running = 0
    /\ result' = [result EXCEPT ![r] = Raised("BadRequestError")]
    /\ pc' = [pc EXCEPT ![r] = "failed"]
    /\ UNCHANGED <<held, wrapped, max_steps, output_schema, raised, tools, system_messages, recordings,
                   life_cycle, tool_call_msg, call_idx, requests, last_request,
                   out_ctx, next_call_id, running>>

Step(r) ==
    \/ Loop(r)
    \/ Respond(r)
    \/ RequestFails(r)
    \/ Dispatch(r)
    \/ ToolDone(r)
    \/ MoveForward(r)
    \/ Output(r)
    \/ OutputRespond(r)
    \/ OutputFails(r)

Next == \E r \in Runs : Start(r) \/ Step(r)

Spec == Init /\ [][Next]_vars

-----------------------------------------------------------------------------
(* The Context on its own: the caller registers tools *)

\* the functions the caller wraps under a name: two for "add"
ToolVersions(name) ==
    IF name = "add" THEN {CallerTool(name), ToolWrapper(name, name \o "_v2", 0)}
    ELSE {CallerTool(name)}

ToolBatches ==
    UNION { [1..n -> UNION {ToolVersions(name) : name \in ToolNames}]
            : n \in 1..MaxBatch }

\* ctx.add_tool(*batch) called by the owner of the Agent
AddTool(batch) ==
    /\ \A r \in Runs : pc[r] = "idle"
    /\ tools' = add_tool(tools, batch).tools
    /\ raised' = IF add_tool(tools, batch).raised THEN "ValueError" ELSE ""
    /\ UNCHANGED <<held, wrapped, max_steps, output_schema, system_messages, recordings, pc,
                   life_cycle, tool_call_msg, call_idx, requests, last_request,
                   out_ctx, result, next_call_id, running>>

NextContext == \E batch \in ToolBatches : AddTool(batch)

SpecContext == Init /\ [][NextContext]_vars

-----------------------------------------------------------------------------
(* The Context on its own: the caller adds, lists and serializes messages *)

MaxMessages == 3      \* messages the caller adds to the Context

CallerMessages ==
    { Message("system", Str("be brief"), <<>>, Uuid),
      Message("user", Str(Question), <<>>, Uuid),
      Message("assistant", None, <<ToolCall(1, "add", ArgsAB)>>, Uuid),
      Message("tool", Str("4"), <<>>, 1) }

\* what a call returned to the caller: returned is the value as it was
\* returned, value is the caller's object (which the caller may mutate),
\* repeat tells that the same method was called just before
Result(call, live, ok, value) ==
    [call |-> call, live |-> live, ok |-> ok, value |-> value,
     returned |-> value, repeat |-> held.call = call]

\* ctx.add_message(msg)
AddMessage(msg) ==
    /\ \A r \in Runs : pc[r] = "idle"
    /\ Len(AllMessages(Ctx)) < MaxMessages
    /\ system_messages' = add_message(Ctx, <<msg>>).system_messages
    /\ recordings' = add_message(Ctx, <<msg>>).recordings
    /\ held' = NoResult
    /\ UNCHANGED <<wrapped, max_steps, output_schema, raised, tools, pc, life_cycle,
                   tool_call_msg, call_idx, requests, last_request, out_ctx,
                   result, next_call_id, running>>

\* ctx.list_message()
ListMessage ==
    /\ \A r \in Runs : pc[r] = "idle"
    /\ held' = Result("list_message", list_message(Ctx).live, TRUE,
                      list_message(Ctx).value)
    /\ UNCHANGED <<wrapped, max_steps, output_schema, raised, tools, system_messages,
                   recordings, pc, life_cycle, tool_call_msg, call_idx, requests,
                   last_request, out_ctx, result, next_call_id, running>>

\* ctx.build_message()
BuildMessage ==
    /\ \A r \in Runs : pc[r] = "idle"
    /\ LET built == build_message(Ctx)
       IN  /\ held' = Result("build_message", built.live, built.ok, built.messages)
           /\ system_messages' = built.ctx.system_messages
           /\ recordings' = built.ctx.recordings
    /\ UNCHANGED <<wrapped, max_steps, output_schema, raised, tools, pc, life_cycle,
                   tool_call_msg, call_idx, requests, last_request, out_ctx,
                   result, next_call_id, running>>

\* the caller edits the first element of the list it was returned; when
\* the list is the Context's own the edit lands in the Context
MutateReturned ==
    /\ \A r \in Runs : pc[r] = "idle"
    /\ held.call \in {"list_message", "build_message"}
    /\ held.value # <<>>
    /\ held.value = held.returned
    /\ LET edited == IF held.call = "list_message"
                     THEN [held.value EXCEPT ![1].text = Str("edited")]
                     ELSE [held.value EXCEPT ![1].role = "edited"]
       IN  /\ held' = [held EXCEPT !.value = edited]
           /\ recordings' = IF held.live /\ held.call = "list_message"
                            THEN edited ELSE recordings
    /\ UNCHANGED <<wrapped, max_steps, output_schema, raised, tools, system_messages,
                   pc, life_cycle, tool_call_msg, call_idx, requests, last_request,
                   out_ctx, result, next_call_id, running>>

NextMessages ==
    \/ \E msg \in CallerMessages : AddMessage(msg)
    \/ ListMessage
    \/ BuildMessage
    \/ MutateReturned

SpecMessages == Init /\ [][NextMessages]_vars

-----------------------------------------------------------------------------
(* wrap: a function made a tool (tool.py) *)

MaxParams == 2        \* parameters the docstring of a wrapped function documents

ArgNames == <<"a", "b", "c", "d">>

\* the str keys of TYPE_MAPPING (docstring_parser gives type_name as a str,
\* so the keys that are types are never looked up)
TypeMappingKeys ==
    { "int", "str", "bool", "float", "list", "dict",
      "int | None", "str | None", "bool | None", "float | None",
      "list | None", "dict | None" }

TYPE_MAPPING(type_name) ==
    CASE type_name \in {"int", "int | None"} -> "integer"
      [] type_name \in {"str", "str | None"} -> "string"
      [] type_name \in {"bool", "bool | None"} -> "boolean"
      [] type_name \in {"float", "float | None"} -> "number"
      [] type_name \in {"list", "list | None"} -> "array"
      [] type_name \in {"dict", "dict | None"} -> "object"

\* the type names a docstring can give a parameter: a key of TYPE_MAPPING,
\* a type it does not list, or none at all
TypeNames == TypeMappingKeys \cup {"bytes", ""}

\* sub in s, for two str
Contains(s, sub) ==
    \E i \in 1..(Len(s) - Len(sub) + 1) : SubSeq(s, i, i + Len(sub) - 1) = sub

\* the functions given to wrap: whether there is a docstring with a
\* description, and the documented parameters in order
Funcs ==
    { [name |-> "add", doc |-> d, params |-> ps]
      : d \in BOOLEAN,
        ps \in UNION { { [i \in 1..n |-> [arg_name |-> ArgNames[i], type_name |-> ts[i]]]
                         : ts \in [1..n -> TypeNames] }
                       : n \in 0..MaxParams } }

\* _is_tool_anno_valid
is_tool_anno_valid(func) ==
    /\ func.doc
    /\ \A i \in 1..Len(func.params) : func.params[i].type_name # ""

\* the for loop of lines 78-90 over the parameters left, or ValueError
RECURSIVE wrap_params(_, _, _)
wrap_params(params, required, properties) ==
    IF params = <<>>
    THEN [status |-> "ok", required |-> required, properties |-> properties]
    ELSE IF Head(params).type_name \notin TypeMappingKeys
    THEN [status |-> "ValueError", required |-> <<>>, properties |-> <<>>]
    ELSE LET type_name == TYPE_MAPPING(Head(params).type_name)
         IN  wrap_params(
                Tail(params),
                IF ~Contains(type_name, "None")
                THEN Append(required, Head(params).arg_name) ELSE required,
                Append(properties,
                       [arg_name |-> Head(params).arg_name, type |-> type_name]))

\* wrap(func)
wrap(func) ==
    IF ~is_tool_anno_valid(func)
    THEN [status |-> "ValueError", func |-> func, name |-> func.name,
          required |-> <<>>, properties |-> <<>>]
    ELSE LET built == wrap_params(func.params, <<>>, <<>>)
         IN  [status |-> built.status, func |-> func, name |-> func.name,
              required |-> built.required, properties |-> built.properties]

\* the caller wraps a function (one call is followed: wrap keeps no state)
Wrap(func) ==
    /\ \A r \in Runs : pc[r] = "idle"
    /\ wrapped = NotWrapped
    /\ wrapped' = wrap(func)
    /\ UNCHANGED <<held, max_steps, output_schema, raised, tools, system_messages,
                   recordings, pc, life_cycle, tool_call_msg, call_idx, requests,
                   last_request, out_ctx, result, next_call_id, running>>

NextWrap == \E func \in Funcs : Wrap(func)

SpecWrap == Init /\ [][NextWrap]_vars

-----------------------------------------------------------------------------
(* A _Lifecycle on its own: any sequence of move_forward and terminate *)

MaxMoves == 6         \* move_forward calls on one _Lifecycle

\* life_cycle.move_forward()
MoveForwardCall(r) ==
    /\ \A q \in Runs : pc[q] = "idle"
    /\ life_cycle[r].current_step < MaxMoves
    /\ life_cycle' = [life_cycle EXCEPT ![r] = move_forward(@, max_steps)]
    /\ UNCHANGED <<held, wrapped, max_steps, output_schema, raised, tools,
                   system_messages, recordings, pc, tool_call_msg, call_idx,
                   requests, last_request, out_ctx, result, next_call_id, running>>

\* life_cycle.terminate()
TerminateCall(r) ==
    /\ \A q \in Runs : pc[q] = "idle"
    /\ life_cycle' = [life_cycle EXCEPT ![r] = terminate(@)]
    /\ UNCHANGED <<held, wrapped, max_steps, output_schema, raised, tools,
                   system_messages, recordings, pc, tool_call_msg, call_idx,
                   requests, last_request, out_ctx, result, next_call_id, running>>

NextLifecycle == \E r \in Runs : MoveForwardCall(r) \/ TerminateCall(r)

SpecLifecycle == Init /\ [][NextLifecycle]_vars

-----------------------------------------------------------------------------
(* The registry over registrations and lifecycle scopes: the caller *)
(* registers tools on the Agent's Context, then a run enters its scope *)

NextRegistry ==
    \/ \E batch \in ToolBatches : AddTool(batch)
    \/ \E r \in Runs : Start(r)

SpecRegistry == Init /\ [][NextRegistry]_vars

-----------------------------------------------------------------------------
NextSequential == \E r \in Runs : StartSequential(r) \/ Step(r)

SpecSequential == Init /\ [][NextSequential]_vars

NextInterleaved == \E r \in Runs : StartInterleaved(r) \/ Step(r)

SpecInterleaved == Init /\ [][NextInterleaved]_vars

-----------------------------------------------------------------------------
(* What the claims speak of *)

AssistantIdx == {i \in 1..Len(recordings) : recordings[i].role = "assistant"}

MinOf(S) == CHOOSE i \in S : \A j \in S : i <= j
MaxOf(S) == CHOOSE i \in S : \A j \in S : j <= i

FirstReply == recordings[MinOf(AssistantIdx)]
LastReply == recordings[MaxOf(AssistantIdx)]

\* what a run returns for a text: the blocks joined by newlines, nothing for None
TextResult(text) ==
    IF text = None THEN ReturnedNone ELSE ReturnedText(Join(text.val, "\n"))

CallNames(msg) == {msg.tool_calls[i].function.name : i \in 1..Len(msg.tool_calls)}

\* a response of the run called terminate
TerminateRequested ==
    \E i \in AssistantIdx : "terminate" \in CallNames(recordings[i])

NoCallerTools == \A i \in 1..Len(tools) : tools[i].name = "terminate"

\* run r is about to execute the tool call at call_idx
DispatchingCall(r) ==
    /\ pc[r] = "dispatch"
    /\ running = r
    /\ call_idx[r] <= Len(tool_call_msg[r].tool_calls)

-----------------------------------------------------------------------------
\* C1: a run makes at most max_steps model requests and its lifecycle is
\* terminated once current_step reaches max_steps; with max_steps = 1 a run
\* that returns has made exactly one request, whether or not the response
\* requested tools, and returns the text of that one assistant message
C1_StepBudget ==
    \A r \in Runs :
        /\ requests[r] <= max_steps
        /\ life_cycle[r].current_step <= max_steps
        /\ life_cycle[r].current_step >= max_steps => life_cycle[r].is_terminated
        /\ (max_steps = 1 /\ pc[r] = "done") =>
              /\ requests[r] = 1
              /\ Cardinality(AssistantIdx) = 1
              /\ ~output_schema => result[r] = TextResult(FirstReply.text)

\* a run with max_steps = 1 returned the text of a response that requested
\* tools other than terminate
C1_Witness ==
    /\ max_steps = 1
    /\ pc[1] = "done"
    /\ requests[1] = 1
    /\ AssistantIdx # {}
    /\ FirstReply.tool_calls # <<>>
    /\ ~TerminateRequested
    /\ result[1].kind = "text"

\* C2 (as stated): with no caller tools and max_steps = 5, a first response
\* without tool calls makes the run return that response's text after
\* exactly one model request
C2_Original ==
    \A r \in Runs :
        ( /\ pc[r] = "done"
          /\ max_steps = DefaultMaxSteps
          /\ ~output_schema
          /\ NoCallerTools
          /\ FirstReply.tool_calls = <<>> )
        => /\ requests[r] = 1
           /\ result[r] = TextResult(FirstReply.text)

\* C2 (amended): with no caller tools and max_steps = 5, a first response
\* without tool calls does not end the loop: a run that returns has made
\* exactly 5 requests unless a later response called terminate (then at
\* least 2), and returns the text of the last response when that response
\* has text
C2_LoopRunsToBudget ==
    \A r \in Runs :
        ( /\ pc[r] = "done"
          /\ max_steps = DefaultMaxSteps
          /\ ~output_schema
          /\ NoCallerTools
          /\ FirstReply.tool_calls = <<>> )
        => /\ requests[r] >= 2
           /\ requests[r] = DefaultMaxSteps \/ TerminateRequested
           /\ LastReply.text # None => result[r] = TextResult(LastReply.text)

\* the run of C2 returned after 5 requests with the text of the fifth reply
C2_Witness ==
    /\ pc[1] = "done"
    /\ max_steps = DefaultMaxSteps
    /\ ~output_schema
    /\ NoCallerTools
    /\ FirstReply.tool_calls = <<>>
    /\ requests[1] = DefaultMaxSteps
    /\ ~TerminateRequested
    /\ result[1] = ReturnedText(ReplyText(1, DefaultMaxSteps))
    /\ result[1] # TextResult(FirstReply.text)

\* C3 (as stated): dispatching a call to terminate at current_step <
\* max_steps terminates the run's lifecycle, and the loop makes no further
\* model request after a turn that carried such a call
C3_Original ==
    [][\A r \in Runs :
          /\ ( /\ DispatchingCall(r)
               /\ CurrentCall(r).function.name = "terminate"
               /\ life_cycle[r].current_step < max_steps )
             => life_cycle'[r].is_terminated
          /\ ( /\ pc[r] = "loop"
               /\ "terminate" \in CallNames(tool_call_msg[r]) )
             => requests'[r] = requests[r]
      ]_vars

\* C4 (as stated): a call to an unregistered name appends one tool message
\* with the call's id saying the tool does not exist, dispatch goes on to the
\* next call, and a loop whose lifecycle is not terminated goes on to the
\* next model request
C4_Original ==
    [][\A r \in Runs :
          /\ ( /\ DispatchingCall(r)
               /\ ~HasTool(tools, CurrentCall(r).function.name) )
             => /\ recordings' = Append(recordings,
                        Message("tool",
                                Str("Tool '" \o CurrentCall(r).function.name
                                    \o "' is not exist."),
                                <<>>, CurrentCall(r).id))
                /\ pc'[r] = "dispatch"
                /\ call_idx'[r] = call_idx[r] + 1
          /\ ( /\ pc[r] = "loop"
               /\ running = r
               /\ ~life_cycle[r].is_terminated
               /\ \E name \in CallNames(tool_call_msg[r]) : ~HasTool(tools, name) )
             => /\ pc'[r] = "awaiting_model"
                /\ requests'[r] = requests[r] + 1
      ]_vars

\* the tool messages a call to the registered tool `name` can produce
ErrorTexts(name) ==
    { "Error executing tool " \o name \o ": " \o err \o "."
      : err \in {"boom", "DecodeError", "TypeError"} }

\* C5: executing a call to a registered tool never ends the run with an
\* error: the step leaves the run dispatching (or awaiting the tool) and
\* what it appends is one tool message with the call's id, which for a
\* raising invocation (an undecodable payload included) is the error text
\* with the tool name
C5_ToolErrorContained ==
    [][\A r \in Runs :
          /\ ( /\ DispatchingCall(r)
               /\ HasTool(tools, CurrentCall(r).function.name)
               /\ CurrentCall(r).function.arguments = ArgsBad )
             => recordings' = Append(recordings,
                    Message("tool",
                            Str("Error executing tool "
                                \o CurrentCall(r).function.name \o ": DecodeError."),
                            <<>>, CurrentCall(r).id))
          /\ ( \/ ( DispatchingCall(r)
                    /\ HasTool(tools, CurrentCall(r).function.name) )
               \/ pc[r] = "awaiting_tool" )
             => /\ pc'[r] \in {"dispatch", "awaiting_tool"}
                /\ result'[r] = result[r]
                /\ \/ recordings' = recordings
                   \/ \E text \in {"4", "Tool execution success."}
                                  \cup ErrorTexts(CurrentCall(r).function.name) :
                         /\ recordings' = Append(recordings,
                                Message("tool", Str(text), <<>>, CurrentCall(r).id))
                         /\ call_idx'[r] = call_idx[r] + 1
      ]_vars

\* a registered tool raised, an undecodable payload was answered, and the
\* run went on to return
C5_Witness ==
    /\ pc[1] = "done"
    /\ \E i \in 1..Len(recordings) :
          /\ recordings[i].role = "tool"
          /\ recordings[i].text = Str("Error executing tool add: boom.")
    /\ \E i \in 1..Len(recordings) :
          /\ recordings[i].role = "tool"
          /\ recordings[i].text = Str("Error executing tool terminate: DecodeError.")

\* the scenario of C6: the first response carries one call to the registered
\* tool add, which returned "4"; a second response carries no tool calls
C6_Scenario ==
    /\ Cardinality(AssistantIdx) >= 2
    /\ HasTool(tools, "add")
    /\ Len(FirstReply.tool_calls) = 1
    /\ FirstReply.tool_calls[1].function.name = "add"
    /\ recordings[MinOf(AssistantIdx) + 1].role = "tool"
    /\ recordings[MinOf(AssistantIdx) + 1].text = Str("4")
    /\ recordings[MinOf(AssistantIdx \ {MinOf(AssistantIdx)})].tool_calls = <<>>

SecondReply == recordings[MinOf(AssistantIdx \ {MinOf(AssistantIdx)})]

ToolIdx == {i \in 1..Len(recordings) : recordings[i].role = "tool"}

WithText ==
    {i \in AssistantIdx : recordings[i].text # None /\ recordings[i].text # Str("")}

\* C7 (as stated): without an output schema a run returns the text of the
\* most recent assistant message that has text, and nothing only when no
\* assistant message has text
C7_Original ==
    \A r \in Runs :
        (pc[r] = "done" /\ ~output_schema)
        => result[r] = IF WithText = {} THEN ReturnedNone
                       ELSE TextResult(recordings[MaxOf(WithText)].text)

\* C8: a run that has exited, by returning or by raising, has its lifecycle
\* terminated
C8_ExitTerminates ==
    \A r \in Runs : pc[r] \in {"done", "failed"} => life_cycle[r].is_terminated

\* a provider error ended a run whose lifecycle neither reached its budget
\* nor was terminated by the tool
C8_Witness ==
    /\ pc[1] = "failed"
    /\ result[1] = Raised("BadRequestError")
    /\ life_cycle[1].current_step < max_steps
    /\ ~TerminateRequested
    /\ life_cycle[1].is_terminated

\* C9 (as stated): a decodable terminate call dispatched by one run
\* terminates that run's lifecycle and leaves the other runs' lifecycles as
\* they were
C9_Original ==
    [][\A r \in Runs :
          ( /\ DispatchingCall(r)
            /\ CurrentCall(r).function.name = "terminate"
            /\ CurrentCall(r).function.arguments = ArgsEmpty )
          => /\ life_cycle'[r].is_terminated
             /\ \A q \in Runs \ {r} : life_cycle'[q] = life_cycle[q]
      ]_vars

\* C10: list_tool returns every registered tool once, in ascending order of
\* name, whatever the order of registration
C10_ListToolSorted ==
    LET listed == list_tool(tools)
    IN  /\ Len(listed) = Len(tools)
        /\ {listed[i] : i \in 1..Len(listed)} = {tools[i] : i \in 1..Len(tools)}
        /\ \A i, j \in 1..Len(listed) :
              i < j => Rank(listed[i].name) < Rank(listed[j].name)

\* three tools were registered in an order that is not the order of names
C10_Witness ==
    /\ Len(tools) >= 3
    /\ Rank(tools[1].name) > Rank(tools[2].name)
    /\ Rank(tools[2].name) > Rank(tools[3].name)
    /\ list_tool(tools)[1] = tools[3]

-----------------------------------------------------------------------------
\* C11: list_message and build_message called twice in a row, with no
\* add_message in between, return equal results; neither call, nor an edit
\* the caller makes to what it was returned, changes the Context's system
\* messages or recordings, so what list_message returned stays what a new
\* call would return
C11_ReadsIdempotent ==
    [][ /\ (ListMessage \/ BuildMessage \/ MutateReturned)
            => UNCHANGED <<system_messages, recordings>>
        /\ (held'.call \in {"list_message", "build_message"} /\ held'.repeat)
            => held'.returned = held.returned
        /\ held'.call = "list_message" => held'.returned = recordings'
      ]_vars

\* build_message was called twice in a row on a history holding a str text,
\* the caller edited the result, and the stored text is still the str
C11_Witness ==
    /\ held.call = "build_message"
    /\ held.repeat
    /\ held.ok
    /\ held.value # held.returned
    /\ \E i \in 1..Len(recordings) : recordings[i].text = Str(Question)

-----------------------------------------------------------------------------
\* a tool of the batch has a name that is registered or that an earlier tool
\* of the batch has
Collides(ts, batch) ==
    \E i \in 1..Len(batch) :
        \/ HasTool(ts, batch[i].name)
        \/ \E j \in 1..(i - 1) : batch[j].name = batch[i].name

\* C12: add_tool raises exactly when a tool it is given has a name already
\* registered, earlier in the same call included; the tools registered
\* before stay in place, a name new to the registry holds the first tool of
\* the call given under it, and without a collision every tool is inserted
C12_AddToolDuplicate ==
    [][ \A batch \in ToolBatches :
          AddTool(batch) =>
            /\ (raised' = "ValueError") <=> Collides(tools, batch)
            /\ Len(tools') >= Len(tools)
            /\ \A i \in 1..Len(tools) : tools'[i] = tools[i]
            /\ \A i \in (Len(tools) + 1)..Len(tools') :
                  \E k \in 1..Len(batch) :
                      /\ tools'[i] = batch[k]
                      /\ \A j \in 1..(k - 1) : batch[j].name # batch[k].name
            /\ ~Collides(tools, batch) => tools' = tools \o batch
      ]_vars

\* a registration was refused and the registry holds the second version of
\* a tool beside another tool
C12_Witness ==
    /\ raised = "ValueError"
    /\ Len(tools) >= 2
    /\ \E i \in 1..Len(tools) : tools[i] = ToolWrapper("add", "add_v2", 0)

-----------------------------------------------------------------------------
InvalidInput == [kind |-> "invalid", messages |-> <<>>]

\* C13: a run given an input that is not a str, a Message or a list raises
\* TypeError at once: it has made no model request and dispatched no tool,
\* its lifecycle is terminated, and it does nothing afterwards
C13_InvalidInputFails ==
    [][ \A r \in Runs :
          /\ StartRun(r, InvalidInput) =>
                /\ pc'[r] = "failed"
                /\ result'[r] = Raised("TypeError")
                /\ life_cycle'[r] = terminate(NewLifecycle)
                /\ requests'[r] = 0
                /\ last_request'[r] = NoRequest
                /\ tool_call_msg'[r] = NoMessage
                /\ \A i \in 1..Len(recordings') : recordings'[i].role = "user"
          /\ result[r] = Raised("TypeError") =>
                /\ pc'[r] = "failed"
                /\ requests'[r] = 0
                /\ tool_call_msg'[r] = NoMessage
                /\ life_cycle'[r] = life_cycle[r]
      ]_vars

\* a run failed on its input after its system message was built
C13_Witness ==
    /\ pc[1] = "failed"
    /\ result[1] = Raised("TypeError")
    /\ requests[1] = 0
    /\ Len(system_messages) = 1
    /\ life_cycle[1].is_terminated

-----------------------------------------------------------------------------
\* C14: when the provider rejects a request of the loop the error leaves
\* the run: no message is appended for the request, no tool is dispatched,
\* the lifecycle is not stepped by move_forward (the scope only terminates
\* it), and the run makes no further request and attempts no extraction
C14_ProviderErrorPropagates ==
    [][ \A r \in Runs :
          /\ RequestFails(r) =>
                /\ result'[r] = Raised("BadRequestError")
                /\ pc'[r] = "failed"
                /\ recordings' = recordings
                /\ system_messages' = system_messages
                /\ call_idx'[r] = call_idx[r]
                /\ tool_call_msg'[r] = tool_call_msg[r]
                /\ life_cycle'[r] = terminate(life_cycle[r])
                /\ requests'[r] = requests[r]
                /\ out_ctx'[r] = EmptyCtx
          /\ result[r] = Raised("BadRequestError") =>
                /\ pc'[r] = "failed"
                /\ requests'[r] = requests[r]
                /\ out_ctx'[r] = out_ctx[r]
                /\ life_cycle'[r] = life_cycle[r]
                /\ call_idx'[r] = call_idx[r]
      ]_vars

\* the request that followed a tool result was rejected: the run failed
\* with the tool message as the last recording and its step count unchanged
C14_Witness ==
    /\ pc[1] = "failed"
    /\ result[1] = Raised("BadRequestError")
    /\ requests[1] = 2
    /\ life_cycle[1].current_step = 1
    /\ out_ctx[1] = EmptyCtx
    /\ recordings[Len(recordings)].role = "tool"

-----------------------------------------------------------------------------
\* C15 (as stated): every completion the provider can answer a request
\* with, made a Message by from_completion and serialized by
\* to_openai_message, gives role assistant, the completion's text as a
\* sequence of text blocks and the completion's tool calls in their order
C15_Original ==
    \A r \in Runs :
        pc[r] = "awaiting_model" =>
            \A completion \in Completions(r) :
                LET sent == to_openai_message(from_completion(completion), Uuid)
                IN  /\ sent.ok
                    /\ sent.param.role = "assistant"
                    /\ sent.param.content =
                            [tag |-> "blocks", val |-> completion.content.val]
                    /\ sent.param.tool_calls = completion.tool_calls

-----------------------------------------------------------------------------
\* the parameters whose declared type does not allow absence, in order
RequiredByType(params) ==
    LET needed(p) == ~Contains(p.type_name, "None")
        kept == SelectSeq(params, needed)
    IN  [i \in 1..Len(kept) |-> kept[i].arg_name]

\* C16 (as stated): the required list of a wrapped function holds, in
\* declaration order, exactly the parameters whose declared type is not one
\* of the T | None forms
C16_Original ==
    wrapped.status = "ok" => wrapped.required = RequiredByType(wrapped.func.params)

-----------------------------------------------------------------------------
\* a run is dispatching the latest assistant turn
Dispatching == \E r \in Runs : pc[r] \in {"dispatch", "awaiting_tool"}

\* the calls of the assistant turn at index a that have been answered: all
\* of them, or those before the call at hand while the turn is dispatched
Answered(a) ==
    IF Dispatching /\ a = MaxOf(AssistantIdx)
    THEN call_idx[CHOOSE r \in Runs : pc[r] \in {"dispatch", "awaiting_tool"}] - 1
    ELSE Len(recordings[a].tool_calls)

-----------------------------------------------------------------------------
\* C18 (as stated): whenever the loop is about to make a request the stored
\* history serializes, and no run is ended by the serialization
C18_Original ==
    \A r \in Runs :
        /\ (pc[r] = "loop" /\ ~life_cycle[r].is_terminated) => build_message(Ctx).ok
        /\ result[r] # Raised("Text is required")

-----------------------------------------------------------------------------
\* the messages of role in a serialized context
OfRole(messages, role) == {i \in 1..Len(messages) : messages[i].role = role}

\* C19 (as stated): the context sent with a request of a run holds exactly
\* one system message, the one input of that run, and no assistant message
\* of another run
C19_Original ==
    \A r \in Runs :
        pc[r] = "awaiting_model" =>
            LET sent == last_request[r].messages
            IN  /\ Cardinality(OfRole(sent, "system")) = 1
                /\ Cardinality(OfRole(sent, "user")) = 1
                /\ \A i \in OfRole(sent, "assistant") :
                      \E n \in 1..MaxRequests :
                          sent[i].content.val = <<ReplyText(r, n)>>

-----------------------------------------------------------------------------
\* the names of the tools and terminate, in the order of str
NamesWithTerminate(ts) ==
    LET listed(name) == name = "terminate" \/ HasTool(ts, name)
    IN  SelectSeq(NameOrder, listed)

\* C20: a run registers terminate (bound to its own lifecycle) before it
\* builds its system message: the message lists the tools registered when
\* the run started and terminate, sorted by name; it is enqueued before the
\* input and before any request, and leads the run's first request
C20_SystemMessageTools ==
    [][ \A r \in Runs :
          /\ \A input \in Inputs :
                StartRun(r, input) =>
                  /\ get_tool(tools', "terminate") = WrapTerminate(r)
                  /\ system_messages' =
                        Append(system_messages,
                               Message("system",
                                       Str("system tools: "
                                           \o Join(NamesWithTerminate(tools), ",")),
                                       <<>>, Uuid))
                  /\ recordings' \in {recordings,
                                       Append(recordings,
                                              Message("user", Str(Question), <<>>, Uuid))}
                  /\ requests'[r] = 0
          /\ (Loop(r) /\ requests'[r] = 1) =>
                /\ last_request'[r].messages[1].role = "system"
                /\ last_request'[r].messages[1].content.val =
                        <<"system tools: " \o Join(NamesWithTerminate(tools), ",")>>
                /\ last_request'[r].messages[2].role = "user"
      ]_vars

\* the first request of a run of an Agent built with fetch and add is out:
\* its system message lists add, fetch and terminate
C20_Witness ==
    /\ pc[1] = "awaiting_model"
    /\ requests[1] = 1
    /\ tools = <<CallerTool("fetch"), CallerTool("add"), WrapTerminate(1)>>
    /\ system_messages = <<Message("system", Str("system tools: add,fetch,terminate"),
                                   <<>>, Uuid)>>

-----------------------------------------------------------------------------
\* the extraction finds an answer: the latest assistant message, with text
AnswerFound == Answer(recordings) # NoMessage /\ Answer(recordings).text # None

\* C21: with an output schema and an answer found, extraction sends one
\* more request, made of a new Context that holds the instruction and the
\* answer, and the Agent's system messages, recordings and tools stay as
\* they are until the run is over; when no answer is found no request is
\* sent and the run returns nothing
C21_ExtractionIsolated ==
    [][ \A r \in Runs :
          /\ Output(r) =>
                /\ UNCHANGED <<system_messages, recordings, tools, requests>>
                /\ IF AnswerFound /\ output_schema
                   THEN /\ pc'[r] = "awaiting_output"
                        /\ Len(out_ctx'[r].system_messages) = 1
                        /\ out_ctx'[r].recordings =
                              <<Message("assistant", Answer(recordings).text, <<>>, Uuid)>>
                        /\ last_request'[r].messages = build_message(out_ctx'[r]).messages
                        /\ Len(last_request'[r].messages) = 2
                        /\ last_request'[r].tools = <<>>
                   ELSE /\ pc'[r] = "done"
                        /\ last_request'[r] = last_request[r]
                        /\ out_ctx'[r] = out_ctx[r]
                        /\ ~AnswerFound => result'[r] = ReturnedNone
          /\ pc[r] \in {"awaiting_output", "done"} =>
                /\ pc'[r] \in {"done", "failed"}
                /\ UNCHANGED <<system_messages, recordings, tools, requests>>
                /\ last_request'[r] = last_request[r]
      ]_vars

\* the structured answer was returned: the nested Context holds three
\* messages and the Agent's recordings end with the answer it was built of
C21_Witness ==
    /\ pc[1] = "done"
    /\ result[1].kind = "model"
    /\ Len(out_ctx[1].recordings) = 2
    /\ Len(last_request[1].messages) = 2
    /\ recordings[Len(recordings)].role = "assistant"
    /\ recordings[Len(recordings)].text = out_ctx[1].recordings[1].text

-----------------------------------------------------------------------------
\* C22: a successful aresponse leaves the Context as it is while the
\* request is made and, when the completion arrives, appends one assistant
\* message at the end of the recordings: the system messages, the recordings
\* before it and the tool registry are unchanged
C22_ResponseAppendsOne ==
    [][ \A r \in Runs :
          /\ (Loop(r) /\ pc'[r] = "awaiting_model")
                => UNCHANGED <<system_messages, recordings, tools>>
          /\ Respond(r) =>
                /\ Len(recordings') = Len(recordings) + 1
                /\ SubSeq(recordings', 1, Len(recordings)) = recordings
                /\ recordings'[Len(recordings')].role = "assistant"
                /\ UNCHANGED <<system_messages, tools>>
          /\ OutputRespond(r) =>
                /\ Len(out_ctx'[r].recordings) = Len(out_ctx[r].recordings) + 1
                /\ SubSeq(out_ctx'[r].recordings, 1, Len(out_ctx[r].recordings))
                      = out_ctx[r].recordings
                /\ out_ctx'[r].recordings[Len(out_ctx'[r].recordings)].role = "assistant"
                /\ out_ctx'[r].system_messages = out_ctx[r].system_messages
      ]_vars

\* the second completion of a run has arrived: its assistant message is the
\* last of the recordings, after the first and the tool message
C22_Witness ==
    /\ pc[1] = "dispatch"
    /\ call_idx[1] = 1
    /\ requests[1] = 2
    /\ Len(recordings) = 4
    /\ recordings[2].role = "assistant"
    /\ recordings[3].role = "tool"
    /\ recordings[4].role = "assistant"
    /\ recordings[4].text = Str(ReplyText(1, 2))

-----------------------------------------------------------------------------
\* C23 (as stated): the tool schemas sent with every request of the loop
\* are in the order of their names
C23_Original ==
    \A r \in Runs :
        pc[r] = "awaiting_model" =>
            \A i, j \in 1..Len(last_request[r].tools) :
                i < j => NameLe(last_request[r].tools[i], last_request[r].tools[j])

-----------------------------------------------------------------------------
\* C24 (as stated): whatever messages were added, build_message emits the
\* system messages in their order and then the recordings in their order,
\* one entry for each stored message
C24_Original ==
    held.call = "build_message" =>
        LET all == system_messages \o recordings
        IN  /\ held.ok
            /\ Len(held.returned) = Len(all)
            /\ \A i \in 1..Len(all) :
                  /\ held.returned[i].role = all[i].role
                  /\ held.returned[i].content.val = all[i].text.val
                  /\ (held.returned[i].role = "system") <=> (i <= Len(system_messages))

-----------------------------------------------------------------------------
\* C25: under any sequence of move_forward and terminate calls a lifecycle
\* that is terminated stays terminated, its current_step never decreases,
\* and current_step >= max_steps implies terminated
C25_LifecycleOneWay ==
    [][ \A r \in Runs :
          /\ life_cycle[r].is_terminated => life_cycle'[r].is_terminated
          /\ life_cycle'[r].current_step >= life_cycle[r].current_step
          /\ life_cycle[r].current_step >= max_steps => life_cycle[r].is_terminated
          /\ life_cycle'[r].current_step >= max_steps => life_cycle'[r].is_terminated
      ]_vars

\* one lifecycle was moved past its budget, the other was terminated at
\* step 1 of 5 and moved on afterwards
C25_Witness ==
    /\ max_steps = DefaultMaxSteps
    /\ life_cycle[1] = [current_step |-> DefaultMaxSteps + 1, is_terminated |-> TRUE]
    /\ life_cycle[2] = [current_step |-> 2, is_terminated |-> TRUE]

-----------------------------------------------------------------------------
\* C26 (as stated): an add_tool call that raises leaves the registry as it
\* was before the call
C26_Original ==
    [][ \A batch \in ToolBatches :
          (AddTool(batch) /\ raised' = "ValueError") => tools' = tools
      ]_vars

-----------------------------------------------------------------------------
\* C27 (as stated): a tool the caller registered stays registered under its
\* name, with the same callable, over add_tool calls and lifecycle scopes
C27_Original ==
    [][ \A i \in 1..Len(tools) :
          tools[i].life = 0 => get_tool(tools', tools[i].name) = tools[i]
      ]_vars

====
